---- MODULE Spec2Model ----
(***************************************************************************)
(* Model of testrunner.go (the variant with success/fail counters,         *)
(* src/testrunner.go lines 149-289): the Coordinator (main), N worker      *)
(* goroutines, the printer goroutine, the buffered input channel, the      *)
(* unbuffered output channel, the WaitGroup and the result counters.       *)
(* SpecV1 is the earlier variant of the same file (lines 15-134), in which *)
(* the printer calls wg.Done() and run() keeps an exit flag.               *)
(***************************************************************************)
EXTENDS Integers, Sequences, FiniteSets, TLC

\* ------------------------------------------------------------------ bounds
\* the largest -threads value, the most entries below the root, the capacity
\* of the input channel (128 in main, scaled down so that a walk can fill
\* it), and the -timeout value in ticks
MaxThreads == 2
MaxEntries == 2
QueueCap == 1
TimeoutTicks == 1

\* ------------------------------------------------------------------ inputs
NoExit == -1
NoPath == "<none>"
EmptyReport == <<>>

Commands == { <<>>, <<"x">>, <<"x", " ", "y", " ", "z">> }
Patterns == { "Test.php$", "(" }
Roots == { ".", "rTest.php" }
EntryPaths == { "aTest.php", "notes.txt" }

\* what CombinedOutput can return: a missing executable fails to launch for
\* every item, a launchable one exits zero or non-zero
Outcomes(canLaunch) == IF canLaunch THEN { "success", "nonzero" } ELSE { "launchfail" }

Workers == 1..MaxThreads

RECURSIVE SeqsUpTo(_, _)
SeqsUpTo(S, n) ==
  IF n = 0 THEN { <<>> }
  ELSE LET shorter == SeqsUpTo(S, n - 1)
       IN shorter \cup { Append(s, x) : s \in { t \in shorter : Len(t) = n - 1 }, x \in S }

\* ------------------------------------------------------- pure functions
IsSpace(c) == c = " "

\* regexp `\s+`: end (exclusive, 0-based) of the whitespace run starting at i
RECURSIVE RunEnd(_, _)
RunEnd(s, i) == IF i < Len(s) /\ IsSpace(s[i + 1]) THEN RunEnd(s, i + 1) ELSE i

\* split.FindAllStringIndex(s, -1): the maximal whitespace runs, as <<begin, end>>
RECURSIVE FindAllIndex(_, _)
FindAllIndex(s, i) ==
  IF i >= Len(s) THEN <<>>
  ELSE IF IsSpace(s[i + 1])
       THEN << <<i, RunEnd(s, i)>> >> \o FindAllIndex(s, RunEnd(s, i))
       ELSE FindAllIndex(s, i + 1)

\* capacity of a []string after append of one element to (len, cap)
AppendCap(len, cap) ==
  IF len < cap THEN cap
  ELSE IF len + 1 > 2 * cap THEN len + 1 ELSE 2 * cap

\* s[b:e] with 0-based half-open bounds
Slice(s, b, e) == SubSeq(s, b + 1, e)

\* the loop of regexp.Split over the matches; acc = [strs, cap, beg, end]
RECURSIVE SplitLoop(_, _, _, _)
SplitLoop(s, ms, k, acc) ==
  IF k > Len(ms) THEN acc
  ELSE LET m == ms[k]
           app == m[2] # 0
       IN SplitLoop(s, ms, k + 1,
            [ strs |-> IF app THEN Append(acc.strs, Slice(s, acc.beg, m[1])) ELSE acc.strs,
              cap  |-> IF app THEN AppendCap(Len(acc.strs), acc.cap) ELSE acc.cap,
              beg  |-> m[2],
              end  |-> m[1] ])

\* split.Split(command, -1): the pieces and the capacity of the returned slice
Split(s) ==
  IF Len(s) = 0 THEN [ strs |-> << <<>> >>, cap |-> 1 ]
  ELSE LET ms == FindAllIndex(s, 0)
           r  == SplitLoop(s, ms, 1, [ strs |-> <<>>, cap |-> Len(ms), beg |-> 0, end |-> 0 ])
       IN IF r.end # Len(s)
          THEN [ strs |-> Append(r.strs, Slice(s, r.beg, Len(s))),
                 cap  |-> AppendCap(Len(r.strs), r.cap) ]
          ELSE [ strs |-> r.strs, cap |-> r.cap ]

\* strings.Join(cmdparts, " ")
RECURSIVE Join(_)
Join(ps) ==
  IF Len(ps) = 0 THEN <<>>
  ELSE IF Len(ps) = 1 THEN ps[1]
  ELSE ps[1] \o <<" ">> \o Join(Tail(ps))

\* fmt.Sprintf("Running %s\n\n%s\n\nElapsed: %s\n", join, out, elapsed)
Format(cmdline, out) ==
  <<"Running", " ">> \o cmdline \o <<"\n", "\n">> \o out
    \o <<"\n", "\n", "Elapsed:", " ", "t", "\n">>

\* strings.TrimSpace
IsBlank(c) == c \in { " ", "\n" }

RECURSIVE TrimLeft(_)
TrimLeft(s) == IF Len(s) > 0 /\ IsBlank(s[1]) THEN TrimLeft(Tail(s)) ELSE s

RECURSIVE TrimRight(_)
TrimRight(s) ==
  IF Len(s) > 0 /\ IsBlank(s[Len(s)]) THEN TrimRight(SubSeq(s, 1, Len(s) - 1)) ELSE s

TrimSpace(s) == TrimRight(TrimLeft(s))

\* combined output of the command: empty when the process could not be started
Output(o) == IF o = "launchfail" THEN <<>> ELSE <<"out">>

\* regexp.Compile(pattern) succeeds
Compiles(pat) == pat # "("

\* matcher.MatchString(path) for the pattern Test.php$
MatchString(pat, p) ==
  /\ pat = "Test.php$"
  /\ p \in { "aTest.php", "bTest.php", "rTest.php" }

\* the sequences of paths filepath.Walk can hand to the callback: the root
\* first, then the entries found below it; only the root when it is inaccessible
WalkPaths(r, ok) ==
  IF ok THEN { <<r>> \o es : es \in SeqsUpTo(EntryPaths, MaxEntries) } ELSE { <<r>> }

\* ------------------------------------------------------------------ state
VARIABLES
  command, pattern, root, rootOK, threads, launchable,  \* flags, root, executable
  inputCap,                                           \* cap(input), fixed by make
  mpc, spawned, walk, pending,                        \* main's position and locals
  parts, partsCap, backing,                           \* the global parts slice
  files, input, inputClosed, outputClosed,            \* seen set and channels
  wg, success, fail, exitStatus,                      \* WaitGroup, counters, exit
  exit,                                               \* first variant: exit flag
  wpc, witem, wshared, wown, wout, wreport,           \* worker goroutines
  ppc, pbuf, idle,                                    \* printer goroutine
  marked, sinceOut, yielded, repeated, added, dispatched, pulled, executed, formatted, sent, printed  \* output and history

inputVars == <<command, pattern, root, rootOK, threads, launchable, inputCap>>
mainVars == <<mpc, spawned, walk, pending, parts, partsCap, backing, files>>
chanVars == <<input, inputClosed, outputClosed>>
countVars == <<wg, success, fail>>
workerVars == <<wpc, witem, wshared, wown, wout, wreport>>
printerVars == <<ppc, pbuf, idle, sinceOut, printed, marked>>
histVars == <<yielded, repeated, added, dispatched, pulled, executed, formatted, sent>>

vars == <<inputVars, mainVars, chanVars, countVars, exitStatus, exit, workerVars,
          printerVars, histVars>>

Running == exitStatus = NoExit

\* the state before main runs, whatever the capacity of the input channel
Start ==
  /\ command \in Commands
  /\ pattern \in Patterns
  /\ root \in Roots
  /\ rootOK \in BOOLEAN
  /\ threads \in -1..MaxThreads   \* flag.Int: any int, negative included
  /\ launchable \in BOOLEAN
  /\ mpc = "start"
  /\ spawned = 0
  /\ walk = <<>>
  /\ pending = NoPath
  /\ parts = <<>>
  /\ partsCap = 0
  /\ backing = <<>>
  /\ files = {}
  /\ input = <<>>
  /\ inputClosed = FALSE
  /\ outputClosed = FALSE
  /\ wg = 0
  /\ success = 0
  /\ fail = 0
  /\ exitStatus = NoExit
  /\ exit = 0
  /\ wpc = [w \in Workers |-> "none"]
  /\ witem = [w \in Workers |-> NoPath]
  /\ wshared = [w \in Workers |-> FALSE]
  /\ wown = [w \in Workers |-> <<>>]
  /\ wout = [w \in Workers |-> "success"]
  /\ wreport = [w \in Workers |-> EmptyReport]
  /\ ppc = "none"
  /\ pbuf = EmptyReport
  /\ idle = 0
  /\ sinceOut = 0
  /\ marked = FALSE
  /\ formatted = {}
  /\ added = <<>>
  /\ yielded = {}
  /\ repeated = FALSE
  /\ dispatched = <<>>
  /\ pulled = <<>>
  /\ executed = {}
  /\ sent = <<>>
  /\ printed = <<>>

\* input := make(chan string, 128), scaled down to a capacity a walk can fill
Init == Start /\ inputCap = QueueCap

\* ------------------------------------------------------------ Coordinator
\* main: command == "" -> print and os.Exit(1)
MainNoCommand ==
  /\ Running /\ mpc = "start"
  /\ command = <<>>
  /\ exitStatus' = 1
  /\ mpc' = "exited"
  /\ UNCHANGED <<inputVars, exit, spawned, walk, pending, parts, partsCap, backing, files,
                 chanVars, countVars, workerVars, printerVars, histVars>>

\* main: parts = split.Split(*command, -1); make the channels
MainSplit ==
  /\ Running /\ mpc = "start"
  /\ command # <<>>
  /\ LET r == Split(command)
     IN /\ parts' = r.strs
        /\ partsCap' = r.cap
        /\ backing' = [i \in 1..r.cap |-> IF i <= Len(r.strs) THEN r.strs[i] ELSE <<>>]
  /\ mpc' = "spawn"
  /\ UNCHANGED <<inputVars, spawned, walk, pending, files,
                 chanVars, countVars, exitStatus, exit, workerVars, printerVars, histVars>>

\* mutant: the loop runs once too often (i <= *threads)
MainSpawnWorker_OneMore ==
  /\ Running /\ mpc = "spawn"
  /\ spawned <= threads /\ spawned < MaxThreads
  /\ spawned' = spawned + 1
  /\ wpc' = [wpc EXCEPT ![spawned + 1] = "recv"]
  /\ UNCHANGED <<inputVars, mpc, walk, pending, parts, partsCap, backing, files,
                 chanVars, countVars, exitStatus, exit, witem, wshared, wown, wout, wreport,
                 printerVars, histVars>>

\* mutant: the loop body runs before the test (at least one worker)
MainSpawnWorker_AtLeastOne ==
  /\ Running /\ mpc = "spawn"
  /\ spawned < threads \/ spawned = 0
  /\ spawned' = spawned + 1
  /\ wpc' = [wpc EXCEPT ![spawned + 1] = "recv"]
  /\ UNCHANGED <<inputVars, mpc, walk, pending, parts, partsCap, backing, files,
                 chanVars, countVars, exitStatus, exit, witem, wshared, wown, wout, wreport,
                 printerVars, histVars>>

\* main: for i := 0; i < *threads; i++ { go worker(input, output, &wg) }
MainSpawnWorker ==
  /\ Running /\ mpc = "spawn"
  /\ spawned < threads
  /\ spawned' = spawned + 1
  /\ wpc' = [wpc EXCEPT ![spawned + 1] = "recv"]
  /\ UNCHANGED <<inputVars, mpc, walk, pending, parts, partsCap, backing, files,
                 chanVars, countVars, exitStatus, exit, witem, wshared, wown, wout, wreport,
                 printerVars, histVars>>

\* main: go printer(output)
MainSpawnPrinter ==
  /\ Running /\ mpc = "spawn"
  /\ spawned >= threads
  /\ ppc' = "select"
  /\ idle' = 0
  /\ mpc' = "compile"
  /\ UNCHANGED <<inputVars, spawned, walk, pending, parts, partsCap, backing, files,
                 chanVars, countVars, exitStatus, exit, workerVars, pbuf, sinceOut, printed,
                 marked, histVars>>

\* mutant: the compile error is printed but main carries on into the walk
MainBadPattern_Continue ==
  /\ Running /\ mpc = "compile"
  /\ ~Compiles(pattern)
  /\ walk' \in WalkPaths(root, rootOK)
  /\ mpc' = "walk"
  /\ UNCHANGED <<inputVars, spawned, pending, parts, partsCap, backing, files,
                 chanVars, countVars, exitStatus, exit, workerVars, printerVars, histVars>>

\* main: regexp.Compile(*pattern) fails -> print and os.Exit(1)
MainBadPattern ==
  /\ Running /\ mpc = "compile"
  /\ ~Compiles(pattern)
  /\ exitStatus' = 1
  /\ mpc' = "exited"
  /\ UNCHANGED <<inputVars, exit, spawned, walk, pending, parts, partsCap, backing, files,
                 chanVars, countVars, workerVars, printerVars, histVars>>

\* main: pattern compiled; files := make(map); filepath.Walk starts
MainCompile ==
  /\ Running /\ mpc = "compile"
  /\ Compiles(pattern)
  /\ walk' \in WalkPaths(root, rootOK)
  /\ files' = {}
  /\ mpc' = "walk"
  /\ UNCHANGED <<inputVars, spawned, pending, parts, partsCap, backing,
                 chanVars, countVars, exitStatus, exit, workerVars, printerVars, histVars>>

\* mutant: the callback does not consult the set of seen paths
WalkAccepts_NoDedup(p, seen) == MatchString(pattern, p)

\* Walk callback up to the channel send: match, dedup, wg.Add(1), files[path]
WalkAccepts(p, seen) == MatchString(pattern, p) /\ p \notin seen

MainWalkStep ==
  /\ Running /\ mpc = "walk"
  /\ walk # <<>>
  /\ LET p == Head(walk)
     IN IF WalkAccepts(p, files)
        THEN /\ wg' = wg + 1
             /\ files' = files \cup {p}
             /\ added' = Append(added, p)
             /\ pending' = p
             /\ mpc' = "enqueue"
        ELSE /\ UNCHANGED <<wg, files, added, pending, mpc>>
  /\ walk' = Tail(walk)
  /\ yielded' = yielded \cup { Head(walk) }
  /\ repeated' = (repeated \/ Head(walk) \in yielded)
  /\ UNCHANGED <<inputVars, spawned, parts, partsCap, backing, chanVars, success, fail,
                 exitStatus, exit, workerVars, printerVars, dispatched, pulled, executed,
                 formatted, sent>>

\* mutant: the channel hands out the newest item first
MainEnqueue_Push ==
  /\ Running /\ mpc = "enqueue"
  /\ Len(input) < inputCap
  /\ input' = <<pending>> \o input
  /\ dispatched' = Append(dispatched, pending)
  /\ pending' = NoPath
  /\ mpc' = "walk"
  /\ UNCHANGED <<inputVars, spawned, walk, parts, partsCap, backing, files,
                 inputClosed, outputClosed, countVars, exitStatus, exit, workerVars,
                 printerVars, yielded, repeated, added, pulled, executed, formatted, sent>>

\* Walk callback: input <- path (blocks while the buffer is full)
MainEnqueue ==
  /\ Running /\ mpc = "enqueue"
  /\ Len(input) < inputCap
  /\ input' = Append(input, pending)
  /\ dispatched' = Append(dispatched, pending)
  /\ pending' = NoPath
  /\ mpc' = "walk"
  /\ UNCHANGED <<inputVars, spawned, walk, parts, partsCap, backing, files,
                 inputClosed, outputClosed, countVars, exitStatus, exit, workerVars,
                 printerVars, yielded, repeated, added, pulled, executed, formatted, sent>>

\* mutant: main goes on without waiting for the WaitGroup
MainWait_NoWait ==
  /\ Running /\ mpc = "walk"
  /\ walk = <<>>
  /\ mpc' = "closeInput"
  /\ UNCHANGED <<inputVars, spawned, walk, pending, parts, partsCap, backing, files,
                 chanVars, countVars, exitStatus, exit, workerVars, printerVars, histVars>>

\* main: Walk returned (its error is discarded); wg.Wait() returns at zero
MainWait ==
  /\ Running /\ mpc = "walk"
  /\ walk = <<>>
  /\ wg = 0
  /\ mpc' = "closeInput"
  /\ UNCHANGED <<inputVars, spawned, walk, pending, parts, partsCap, backing, files,
                 chanVars, countVars, exitStatus, exit, workerVars, printerVars, histVars>>

\* main: close(input)
MainCloseInput ==
  /\ Running /\ mpc = "closeInput"
  /\ inputClosed' = TRUE
  /\ mpc' = "closeOutput"
  /\ UNCHANGED <<inputVars, spawned, walk, pending, parts, partsCap, backing, files,
                 input, outputClosed, countVars, exitStatus, exit, workerVars, printerVars,
                 histVars>>

\* main: close(output)
MainCloseOutput ==
  /\ Running /\ mpc = "closeOutput"
  /\ outputClosed' = TRUE
  /\ mpc' = "summary"
  /\ UNCHANGED <<inputVars, spawned, walk, pending, parts, partsCap, backing, files,
                 input, inputClosed, countVars, exitStatus, exit, workerVars, printerVars,
                 histVars>>

\* main: print the summary; if fail > 0 { os.Exit(1) }; return
ExitCode(f) == IF f > 0 THEN 1 ELSE 0

MainFinish ==
  /\ Running /\ mpc = "summary"
  /\ exitStatus' = ExitCode(fail)
  /\ mpc' = "exited"
  /\ UNCHANGED <<inputVars, exit, spawned, walk, pending, parts, partsCap, backing, files,
                 chanVars, countVars, workerVars, printerVars, histVars>>

\* ---------------------------------------------------------------- workers
\* the argument list a worker's cmdparts slice currently denotes
CmdParts(w) == IF wshared[w] THEN SubSeq(backing, 1, Len(parts) + 1) ELSE wown[w]

\* mutant: the receive leaves the item in the queue
WorkerRecv_Peek(w) ==
  /\ Running /\ wpc[w] = "recv"
  /\ input # <<>>
  /\ witem' = [witem EXCEPT ![w] = Head(input)]
  /\ pulled' = Append(pulled, <<w, Head(input)>>)
  /\ wpc' = [wpc EXCEPT ![w] = "append"]
  /\ UNCHANGED <<inputVars, mainVars, chanVars, countVars, exitStatus, exit,
                 wshared, wown, wout, wreport, printerVars, yielded, repeated, added,
                 dispatched, executed, formatted, sent>>

\* worker: for filename := range path (receive one item)
WorkerRecv(w) ==
  /\ Running /\ wpc[w] = "recv"
  /\ input # <<>>
  /\ witem' = [witem EXCEPT ![w] = Head(input)]
  /\ input' = Tail(input)
  /\ pulled' = Append(pulled, <<w, Head(input)>>)
  /\ wpc' = [wpc EXCEPT ![w] = "append"]
  /\ UNCHANGED <<inputVars, mainVars, inputClosed, outputClosed, countVars, exitStatus, exit,
                 wshared, wown, wout, wreport, printerVars, yielded, repeated, added, dispatched,
                 executed, formatted, sent>>

\* worker: range over a closed and drained channel ends the goroutine
WorkerExit(w) ==
  /\ Running /\ wpc[w] = "recv"
  /\ input = <<>> /\ inputClosed
  /\ wpc' = [wpc EXCEPT ![w] = "exited"]
  /\ UNCHANGED <<inputVars, mainVars, chanVars, countVars, exitStatus, exit,
                 witem, wshared, wown, wout, wreport, printerVars, histVars>>

\* run: cmdparts := append(parts[:], path)
\* with spare capacity the element is written into the shared backing array
AppendShares(len, cap) == len < cap

WorkerAppend(w) ==
  /\ Running /\ wpc[w] = "append"
  /\ IF AppendShares(Len(parts), partsCap)
     THEN /\ backing' = [backing EXCEPT ![Len(parts) + 1] = <<witem[w]>>]
          /\ wshared' = [wshared EXCEPT ![w] = TRUE]
          /\ UNCHANGED wown
     ELSE /\ wown' = [wown EXCEPT ![w] = Append(parts, <<witem[w]>>)]
          /\ wshared' = [wshared EXCEPT ![w] = FALSE]
          /\ UNCHANGED backing
  /\ wpc' = [wpc EXCEPT ![w] = "exec"]
  /\ UNCHANGED <<inputVars, mpc, spawned, walk, pending, parts, partsCap, files,
                 chanVars, countVars, exitStatus, exit, witem, wout, wreport,
                 printerVars, histVars>>

\* run: exec.Cmd{Path: parts[0], Args: cmdparts}; cmd.CombinedOutput()
WorkerExec(w) ==
  /\ Running /\ wpc[w] = "exec"
  /\ \E o \in Outcomes(launchable) : wout' = [wout EXCEPT ![w] = o]
  /\ executed' = executed \cup { [worker |-> w, item |-> witem[w], args |-> CmdParts(w)] }
  /\ wpc' = [wpc EXCEPT ![w] = "count"]
  /\ UNCHANGED <<inputVars, mainVars, chanVars, countVars, exitStatus, exit,
                 witem, wshared, wown, wreport, printerVars, yielded, repeated, added, dispatched,
                 pulled, formatted, sent>>

\* run: resultMtx.Lock(); fail += 1 or success += 1; resultMtx.Unlock()
Failed(o) == o # "success"

\* mutant: no mutex, the increment is lost when another worker counts too
WorkerCount_Lost(w) ==
  /\ Running /\ wpc[w] = "count"
  /\ IF \E v \in Workers \ {w} : wpc[v] = "count"
     THEN UNCHANGED <<success, fail>>
     ELSE IF Failed(wout[w])
          THEN fail' = fail + 1 /\ UNCHANGED success
          ELSE success' = success + 1 /\ UNCHANGED fail
  /\ wpc' = [wpc EXCEPT ![w] = "return"]
  /\ UNCHANGED <<inputVars, mainVars, chanVars, wg, exitStatus, exit,
                 witem, wshared, wown, wout, wreport, printerVars, histVars>>

WorkerCount(w) ==
  /\ Running /\ wpc[w] = "count"
  /\ IF Failed(wout[w])
     THEN fail' = fail + 1 /\ UNCHANGED success
     ELSE success' = success + 1 /\ UNCHANGED fail
  /\ wpc' = [wpc EXCEPT ![w] = "return"]
  /\ UNCHANGED <<inputVars, mainVars, chanVars, wg, exitStatus, exit,
                 witem, wshared, wown, wout, wreport, printerVars, histVars>>

\* mutant: run returns without the deferred wg.Done()
WorkerReturn_NoDone(w) ==
  /\ Running /\ wpc[w] = "return"
  /\ wreport' = [wreport EXCEPT ![w] = Format(Join(CmdParts(w)), Output(wout[w]))]
  /\ formatted' = formatted \cup { [worker |-> w, item |-> witem[w],
                                     cmdparts |-> CmdParts(w), out |-> Output(wout[w])] }
  /\ wpc' = [wpc EXCEPT ![w] = "send"]
  /\ UNCHANGED <<inputVars, mainVars, chanVars, countVars, exitStatus, exit,
                 witem, wshared, wown, wout, printerVars, yielded, repeated, added,
                 dispatched, pulled, executed, sent>>

\* run: return fmt.Sprintf(...), then the deferred wg.Done()
WorkerReturn(w) ==
  /\ Running /\ wpc[w] = "return"
  /\ wreport' = [wreport EXCEPT ![w] = Format(Join(CmdParts(w)), Output(wout[w]))]
  /\ formatted' = formatted \cup { [worker |-> w, item |-> witem[w],
                                     cmdparts |-> CmdParts(w), out |-> Output(wout[w])] }
  /\ wg' = wg - 1
  /\ wpc' = [wpc EXCEPT ![w] = "send"]
  /\ UNCHANGED <<inputVars, mainVars, chanVars, success, fail, exitStatus, exit,
                 witem, wshared, wown, wout, printerVars, yielded, repeated, added, dispatched,
                 pulled, executed, sent>>

\* worker: output <- report, received by the printer's select. A select that
\* is blocked is completed by the first event, so once the timer has fired
\* (idle = TimeoutTicks) the printer takes the timeout case before it receives.
\* The locals of the finished loop iteration are dead and return to their
\* initial values.
WorkerSend(w) ==
  /\ Running /\ wpc[w] = "send"
  /\ ~outputClosed
  /\ ppc = "select" /\ idle < TimeoutTicks
  /\ pbuf' = wreport[w]
  /\ ppc' = "print"
  /\ sent' = Append(sent, witem[w])
  /\ wpc' = [wpc EXCEPT ![w] = "recv"]
  /\ witem' = [witem EXCEPT ![w] = NoPath]
  /\ wshared' = [wshared EXCEPT ![w] = FALSE]
  /\ wown' = [wown EXCEPT ![w] = <<>>]
  /\ wout' = [wout EXCEPT ![w] = "success"]
  /\ wreport' = [wreport EXCEPT ![w] = EmptyReport]
  /\ UNCHANGED <<inputVars, mainVars, chanVars, countVars, exitStatus, exit,
                 idle, sinceOut, printed, marked,
                 yielded, repeated, added, dispatched, pulled, executed, formatted>>

\* worker: output <- report on the closed channel panics; the process dies
PanicStatus == 2

WorkerSendClosed(w) ==
  /\ Running /\ wpc[w] = "send"
  /\ outputClosed
  /\ wpc' = [wpc EXCEPT ![w] = "panic"]
  /\ exitStatus' = PanicStatus
  /\ UNCHANGED <<inputVars, exit, mainVars, chanVars, countVars,
                 witem, wshared, wown, wout, wreport, printerVars, histVars>>

\* ---------------------------------------------------------------- printer
\* printer: case output := <-str on the closed channel yields ""
PrinterRecvClosed ==
  /\ Running /\ ppc = "select"
  /\ outputClosed
  /\ pbuf' = EmptyReport
  /\ ppc' = "print"
  /\ UNCHANGED <<inputVars, mainVars, chanVars, countVars, exitStatus, exit, workerVars,
                 idle, sinceOut, printed, marked, histVars>>

\* printer: if output = strings.TrimSpace(output); output != "" { Printf }
PrinterPrint ==
  /\ Running /\ ppc = "print"
  /\ LET out == TrimSpace(pbuf)
     IN IF out # <<>>
        THEN printed' = Append(printed, out) /\ sinceOut' = 0
        ELSE UNCHANGED <<printed, sinceOut>>
  /\ idle' = 0
  /\ ppc' = "select"
  /\ pbuf' = EmptyReport
  /\ UNCHANGED <<inputVars, mainVars, chanVars, countVars, exitStatus, exit, workerVars,
                 marked, histVars>>

\* mutant: the timer is not restarted after the blank line
PrinterTimeout_NoRestart ==
  /\ Running /\ ppc = "select"
  /\ idle = TimeoutTicks
  /\ marked' = TRUE
  /\ sinceOut' = 0
  /\ UNCHANGED <<inputVars, mainVars, chanVars, countVars, exitStatus, exit, workerVars,
                 ppc, pbuf, idle, printed, histVars>>

\* printer: case <-time.After(timeout): fmt.Println("")
PrinterTimeout ==
  /\ Running /\ ppc = "select"
  /\ idle = TimeoutTicks
  /\ marked' = TRUE
  /\ sinceOut' = 0
  /\ idle' = 0
  /\ UNCHANGED <<inputVars, mainVars, chanVars, countVars, exitStatus, exit, workerVars,
                 ppc, pbuf, printed, histVars>>

\* one unit of time passes while the printer is blocked in its select
Tick ==
  /\ Running /\ ppc = "select"
  /\ ~outputClosed
  /\ idle < TimeoutTicks
  /\ idle' = idle + 1
  /\ sinceOut' = sinceOut + 1
  /\ UNCHANGED <<inputVars, mainVars, chanVars, countVars, exitStatus, exit, workerVars,
                 ppc, pbuf, printed, marked, histVars>>

\* ------------------------------------------------------------------- spec
Next ==
  \/ MainNoCommand
  \/ MainSplit
  \/ MainSpawnWorker
  \/ MainSpawnPrinter
  \/ MainBadPattern
  \/ MainCompile
  \/ MainWalkStep
  \/ MainEnqueue
  \/ MainWait
  \/ MainCloseInput
  \/ MainCloseOutput
  \/ MainFinish
  \/ \E w \in Workers : WorkerRecv(w)
  \/ \E w \in Workers : WorkerExit(w)
  \/ \E w \in Workers : WorkerAppend(w)
  \/ \E w \in Workers : WorkerExec(w)
  \/ \E w \in Workers : WorkerCount(w)
  \/ \E w \in Workers : WorkerReturn(w)
  \/ \E w \in Workers : WorkerSend(w)
  \/ \E w \in Workers : WorkerSendClosed(w)
  \/ PrinterRecvClosed
  \/ PrinterPrint
  \/ PrinterTimeout
  \/ Tick

Spec == Init /\ [][Next]_vars

\* the steps of the main goroutine
MainNext ==
  \/ MainNoCommand \/ MainSplit \/ MainSpawnWorker \/ MainSpawnPrinter
  \/ MainBadPattern \/ MainCompile \/ MainWalkStep \/ MainEnqueue
  \/ MainWait \/ MainCloseInput \/ MainCloseOutput \/ MainFinish

\* the steps a worker goroutine takes on its own (all but the channel send)
WorkerStep(w) ==
  \/ WorkerRecv(w) \/ WorkerAppend(w) \/ WorkerExec(w)
  \/ WorkerCount(w) \/ WorkerReturn(w)

\* the steps the printer takes on its own
PrinterStep == PrinterPrint \/ PrinterTimeout

\* every goroutine that can run does run; every command terminates; a sender
\* waiting on the output channel is served when the printer comes back to its
\* select (the channel queues its senders); time may or may not pass
Fairness ==
  /\ WF_vars(MainNext)
  /\ \A w \in Workers : WF_vars(WorkerStep(w)) /\ SF_vars(WorkerSend(w))
  /\ WF_vars(PrinterStep)

\* the runs checked for progress: what the commands print and how their
\* arguments are laid out in memory has no part in who blocks on whom, so the
\* executable is launchable and the command has no fixed arguments
FairInit == Init /\ launchable /\ Len(command) <= 1

FairSpec == FairInit /\ [][Next]_vars /\ Fairness

\* the runs checked for the order of the items: the input channel has room for
\* more than one path at a time, as the 128 slots of main have; as for
\* FairInit the executable is launchable and the command has no fixed arguments
WideInit == Start /\ inputCap = QueueCap + 1 /\ launchable /\ Len(command) <= 1

WideSpec == WideInit /\ [][Next]_vars

\* ----------------------------------------------- the first variant (V1)
\* Lines 15-134: the same main, workers and channels; the steps below are
\* the ones whose code differs from the second variant.

\* info.IsDir() for the paths of the walk
IsDir(p) == p = "."

\* Walk callback: if !info.IsDir() { if matcher.MatchString(path) { wg.Add(1);
\* input <- path } }. For a root that cannot be accessed info is nil and
\* info.IsDir() panics.
MainWalkStepV1 ==
  /\ Running /\ mpc = "walk"
  /\ walk # <<>>
  /\ LET p == Head(walk)
     IN IF ~rootOK
        THEN /\ exitStatus' = PanicStatus
             /\ mpc' = "panic"
             /\ UNCHANGED <<wg, added, pending>>
        ELSE IF ~IsDir(p) /\ MatchString(pattern, p)
        THEN /\ wg' = wg + 1
             /\ added' = Append(added, p)
             /\ pending' = p
             /\ mpc' = "enqueue"
             /\ UNCHANGED exitStatus
        ELSE /\ UNCHANGED <<wg, added, pending, mpc, exitStatus>>
  /\ walk' = Tail(walk)
  /\ yielded' = yielded \cup { Head(walk) }
  /\ repeated' = (repeated \/ Head(walk) \in yielded)
  /\ UNCHANGED <<inputVars, spawned, parts, partsCap, backing, files, chanVars,
                 success, fail, exit, workerVars, printerVars, dispatched, pulled,
                 executed, formatted, sent>>

\* main: os.Exit(exit)
MainFinishV1 ==
  /\ Running /\ mpc = "summary"
  /\ exitStatus' = exit
  /\ mpc' = "exited"
  /\ UNCHANGED <<inputVars, spawned, walk, pending, parts, partsCap, backing, files,
                 chanVars, countVars, exit, workerVars, printerVars, histVars>>

\* run: if err != nil { exitMtx.Lock(); exit = 1; exitMtx.Unlock() }
WorkerCountV1(w) ==
  /\ Running /\ wpc[w] = "count"
  /\ exit' = IF Failed(wout[w]) THEN 1 ELSE exit
  /\ wpc' = [wpc EXCEPT ![w] = "return"]
  /\ UNCHANGED <<inputVars, mainVars, chanVars, countVars, exitStatus,
                 witem, wshared, wown, wout, wreport, printerVars, histVars>>

\* fmt.Sprintf("Running %s\n\n%s\n\nElapsed:%s\n", join, out, elapsed)
FormatV1(cmdline, out) ==
  <<"Running", " ">> \o cmdline \o <<"\n", "\n">> \o out
    \o <<"\n", "\n", "Elapsed:", "t", "\n">>

\* run: return fmt.Sprintf(...); there is no wg.Done() in run
WorkerReturnV1(w) ==
  /\ Running /\ wpc[w] = "return"
  /\ wreport' = [wreport EXCEPT ![w] = FormatV1(Join(CmdParts(w)), Output(wout[w]))]
  /\ formatted' = formatted \cup { [worker |-> w, item |-> witem[w],
                                     cmdparts |-> CmdParts(w), out |-> Output(wout[w])] }
  /\ wpc' = [wpc EXCEPT ![w] = "send"]
  /\ UNCHANGED <<inputVars, mainVars, chanVars, countVars, exitStatus, exit,
                 witem, wshared, wown, wout, printerVars, yielded, repeated, added,
                 dispatched, pulled, executed, sent>>

\* printer: fmt.Printf("\n%s\n", output); wg.Done(). Done subtracts one and
\* panics when the counter has become negative.
PrinterPrintV1 ==
  /\ Running /\ ppc = "print"
  /\ printed' = Append(printed, <<"\n">> \o pbuf \o <<"\n">>)
  /\ sinceOut' = 0
  /\ idle' = 0
  /\ pbuf' = EmptyReport
  /\ wg' = wg - 1
  /\ IF wg - 1 < 0
     THEN ppc' = "panic" /\ exitStatus' = PanicStatus
     ELSE ppc' = "select" /\ UNCHANGED exitStatus
  /\ UNCHANGED <<inputVars, mainVars, chanVars, success, fail, exit, workerVars,
                 marked, histVars>>

NextV1 ==
  \/ MainNoCommand
  \/ MainSplit
  \/ MainSpawnWorker
  \/ MainSpawnPrinter
  \/ MainBadPattern
  \/ MainCompile
  \/ MainWalkStepV1
  \/ MainEnqueue
  \/ MainWait
  \/ MainCloseInput
  \/ MainCloseOutput
  \/ MainFinishV1
  \/ \E w \in Workers : WorkerRecv(w)
  \/ \E w \in Workers : WorkerExit(w)
  \/ \E w \in Workers : WorkerAppend(w)
  \/ \E w \in Workers : WorkerExec(w)
  \/ \E w \in Workers : WorkerCountV1(w)
  \/ \E w \in Workers : WorkerReturnV1(w)
  \/ \E w \in Workers : WorkerSend(w)
  \/ PrinterRecvClosed
  \/ PrinterPrintV1
  \/ PrinterTimeout
  \/ Tick

SpecV1 == Init /\ [][NextV1]_vars


\* ----------------------------------------------------------------- claims
ValidConfig == command # <<>> /\ Compiles(pattern)
Exited == exitStatus # NoExit

\* main is past wg.Wait() (Draining has completed)
AfterWait == ValidConfig /\ mpc \in { "closeInput", "closeOutput", "summary", "exited" }

\* the paths of a sequence are pairwise distinct
NoRepeat(q) == \A i, j \in 1..Len(q) : q[i] = q[j] => i = j

Range(q) == { q[i] : i \in 1..Len(q) }

\* C1: by the time the process exits, the printer has written exactly one
\* report per dispatched path (none lost, none printed twice).
C1_AllReportsPrinted ==
  Exited => /\ Len(printed) = Len(dispatched)
            /\ Len(sent) = Len(dispatched)
            /\ NoRepeat(sent)

\* C2: once wg.Wait() has returned, and in every later state,
\* success + fail equals the number of WorkItems dispatched.
C2_CountersSumAfterWait ==
  AfterWait => success + fail = Len(dispatched)

C2_Witness ==
  /\ mpc = "summary" /\ threads = 2
  /\ Len(dispatched) = 2 /\ success = 1 /\ fail = 1

\* C3: whatever the walk yields, repeats included, no path is enqueued twice,
\* only matching paths are enqueued, wg.Add(1) is called exactly once per
\* enqueued path, and when the walk is over every matching path that was
\* yielded has been enqueued.
C3_DispatchedOnce ==
  /\ NoRepeat(dispatched)
  /\ \A p \in Range(dispatched) : MatchString(pattern, p) /\ p \in yielded
  /\ added = IF mpc = "enqueue" THEN Append(dispatched, pending) ELSE dispatched
  /\ AfterWait => \A p \in yielded : MatchString(pattern, p) => p \in Range(dispatched)

C3_Witness ==
  /\ AfterWait /\ repeated
  /\ "aTest.php" \in yielded
  /\ Len(dispatched) = 2 /\ Len(added) = 2

\* C4: every dispatched item is pulled from the queue by exactly one worker,
\* run() executes the command for it exactly once, on the worker that pulled
\* it, and after wg.Wait() no dispatched item is left unexecuted. (Which
\* arguments that execution receives is the subject of C7.)
C4_ExecutedOnce ==
  /\ NoRepeat([i \in 1..Len(pulled) |-> pulled[i][2]])
  /\ Len(pulled) <= Len(dispatched)
  /\ \A i \in 1..Len(pulled) : pulled[i][2] = dispatched[i]
  /\ \A e \in executed : <<e.worker, e.item>> \in Range(pulled)
  /\ \A e1, e2 \in executed : e1.item = e2.item => e1 = e2
  /\ AfterWait => { e.item : e \in executed } = Range(dispatched)

C4_Witness ==
  /\ AfterWait /\ Len(dispatched) = 2
  /\ { e.worker : e \in executed } = { 1, 2 }

\* C5: with a valid configuration the exit status is 0 exactly when fail = 0,
\* that is when no executed command failed, and it is 1 otherwise.
C5_ExitStatusIffNoFailure ==
  (ValidConfig /\ Exited) =>
    /\ exitStatus \in { 0, 1 }
    /\ exitStatus = 0 <=> fail = 0

\* C6: with at least one worker, terminating commands and fair scheduling,
\* main gets past wg.Wait() for every walk, also when the walk yields more
\* matching paths than the input channel holds; so no state is reached in
\* which the walker, the workers, the printer and main block one another.
C6_ReachesDone == (ValidConfig /\ threads >= 1) ~> AfterWait

\* main is past wg.Wait() after a walk that dispatched more paths than the
\* input channel holds, with a single worker
C6_Witness ==
  /\ AfterWait /\ threads = 1
  /\ Len(dispatched) > inputCap

\* C7: the command executed for an item has the arguments parts + [its own
\* path], its report names the same path, and building one worker's argument
\* list changes neither another worker's list nor the shared parts.
C7_ArgsAreOwnPath ==
  /\ \A e \in executed : e.args = Append(parts, <<e.item>>)
  /\ \A f \in formatted : f.cmdparts = Append(parts, <<f.item>>)
  /\ \A w \in Workers :
       wpc[w] \in { "exec", "count", "return" } => CmdParts(w) = Append(parts, <<witem[w]>>)
  /\ SubSeq(backing, 1, Len(parts)) = parts

\* C8: with an empty command or a pattern that does not compile, main never
\* enters the walk: nothing is yielded or enqueued, no command runs, no report
\* is sent or printed, the counters stay 0, and the exit status is 1.
C8_ConfigErrorNoWork ==
  (command = <<>> \/ pattern = "(") =>
    /\ mpc \in { "start", "spawn", "compile", "exited" }
    /\ walk = <<>> /\ yielded = {}
    /\ added = <<>> /\ dispatched = <<>> /\ input = <<>> /\ wg = 0
    /\ pulled = <<>> /\ executed = {} /\ formatted = {}
    /\ sent = <<>> /\ printed = <<>>
    /\ success = 0 /\ fail = 0
    /\ mpc = "exited" <=> exitStatus = 1
    /\ exitStatus \in { NoExit, 1 }

C8_Witness ==
  /\ command # <<>> /\ pattern = "("
  /\ exitStatus = 1
  /\ spawned = 2 /\ ppc = "select"

\* C9: with an inaccessible root the process ends with a non-zero status and
\* nothing is dispatched or executed, the root path included.
C9_RootInaccessibleFails ==
  (ValidConfig /\ ~rootOK) =>
    /\ added = <<>> /\ dispatched = <<>> /\ executed = {}
    /\ Exited => exitStatus # 0

LaunchErrorText == <<"exec:", " ", "not", " ", "found">>

\* C11: when the command cannot be launched, run() returns normally with a
\* failure: fail is incremented once per item run, success stays 0, a report
\* is formatted for every item run, and its output field holds the launch
\* error text.
C11_LaunchFailureReported ==
  ~launchable =>
    /\ success = 0
    /\ fail = Cardinality(formatted) + Cardinality({ w \in Workers : wpc[w] = "return" })
    /\ \A f \in formatted : f.out = LaunchErrorText

\* C12: per item the order is execute, count, publish, decrement: wg.Done()
\* has never been called more often than reports were handed to the output
\* channel.
C12_DoneAfterPublish == Len(added) - wg <= Len(sent)

\* C13: no worker sends, or is about to send, on the output channel once main
\* has closed it.
C13_NoSendAfterClose ==
  outputClosed => \A w \in Workers : wpc[w] \notin { "send", "panic" }

\* C15: whenever wg is zero the input channel is empty and no worker holds an
\* item it has pulled and not finished processing (run and report handed over).
C15_ZeroMeansIdle ==
  wg = 0 => /\ input = <<>>
            /\ \A w \in Workers : wpc[w] \in { "none", "recv", "exited" }

\* the part of C15 about the command itself: at zero no worker is inside run()
ZeroMeansNoRun ==
  wg = 0 => /\ input = <<>> /\ mpc # "enqueue"
            /\ \A w \in Workers : wpc[w] \notin { "append", "exec", "count", "return" }

\* C16: exactly threads workers are started, each holds at most one item, so
\* at most threads items are in run() at once (one at a time when threads = 1),
\* and all items are processed with the counters summing to the dispatched.
InRun == { w \in Workers : wpc[w] \in { "append", "exec", "count", "return" } }
Started == { w \in Workers : wpc[w] # "none" }

C16_AtMostNConcurrent ==
  /\ Started = 1..spawned
  /\ spawned <= IF threads > 0 THEN threads ELSE 0
  /\ mpc \notin { "start", "spawn" } /\ mpc # "exited" => spawned = IF threads > 0 THEN threads ELSE 0
  /\ Len(pulled) - Cardinality(formatted) = Cardinality(InRun)
  /\ Cardinality(InRun) <= IF threads > 0 THEN threads ELSE 0
  /\ \A w \in Workers : (witem[w] # NoPath) <=> wpc[w] \in { "append", "exec", "count", "return", "send", "panic" }
  /\ (AfterWait /\ threads = 1) => success + fail = Len(dispatched) /\ Len(pulled) = Len(dispatched)

C16_Witness ==
  /\ threads = 1 /\ AfterWait
  /\ Len(dispatched) = 2 /\ success + fail = 2

\* C17: no worker and no printer exists before the pattern has been compiled
\* successfully.
C17_StartAfterValidation ==
  (Started # {} \/ ppc # "none") =>
     /\ pattern # "("
     /\ mpc \notin { "start", "spawn", "compile" }

\* C18: success + fail never exceeds the number of items dispatched, every
\* step changes the counters by nothing or adds exactly one to exactly one of
\* them, every item that left the count step is counted once, and the number
\* of wg.Done() calls never exceeds success + fail.
C18_CountersFollowProgress ==
  /\ [](/\ success + fail <= Len(dispatched)
        /\ Len(dispatched) - wg <= success + fail
        /\ Len(added) - wg <= success + fail
        /\ success + fail = Cardinality(formatted)
                              + Cardinality({ w \in Workers : wpc[w] = "return" }))
  /\ [][ \/ (success' = success /\ fail' = fail)
         \/ (success' = success + 1 /\ fail' = fail)
         \/ (success' = success /\ fail' = fail + 1) ]_vars

C18_Witness ==
  /\ success = 1 /\ fail = 1 /\ wg = 1
  /\ \E w \in Workers : wpc[w] = "return"

\* C20: with a thread count of 0 or less no worker is ever started and nothing
\* is executed; once a path has matched, main never gets past wg.Wait() (or
\* stays blocked on the full input channel); when no path matches, main runs
\* through to exit status 0.
NoMatchAhead ==
  /\ mpc = "walk" /\ added = <<>>
  /\ \A i \in 1..Len(walk) : ~MatchString(pattern, walk[i])

C20_NoWorkersNeverDone ==
  /\ [](threads <= 0 =>
         /\ spawned = 0 /\ Started = {}
         /\ pulled = <<>> /\ executed = {}
         /\ added # <<>> => /\ mpc \in { "walk", "enqueue" }
                            /\ exitStatus = NoExit
                            /\ wg = Len(added))
  /\ (threads <= 0 /\ NoMatchAhead) ~> (exitStatus = 0)

C20_Witness ==
  /\ threads = -1 /\ wg = 1 /\ input # <<>>
  /\ mpc = "walk" /\ walk = <<>> /\ ppc = "select"

C20_WitnessDone == threads <= 0 /\ mpc = "exited" /\ exitStatus = 0 /\ added = <<>> /\ ValidConfig

\* C19: the input channel is first in, first out: the items are pulled in the
\* order in which the walk dispatched them, whatever the number of workers,
\* and with one worker the reports reach the printer in that order too.
PulledPaths == [i \in 1..Len(pulled) |-> pulled[i][2]]

C19_FifoOrder ==
  /\ Len(pulled) <= Len(dispatched)
  /\ PulledPaths = SubSeq(dispatched, 1, Len(pulled))
  /\ input = SubSeq(dispatched, Len(pulled) + 1, Len(dispatched))
  /\ threads = 1 => /\ Len(sent) <= Len(dispatched)
                    /\ sent = SubSeq(dispatched, 1, Len(sent))

\* two workers: both items pulled in dispatch order, the second one's report
\* handed over first
C19_Witness ==
  /\ threads = 2 /\ Len(dispatched) = 2 /\ Len(pulled) = 2
  /\ sent = <<dispatched[2]>>

\* one worker, both paths waiting in the channel at once
C19_WitnessQueued == threads = 1 /\ Len(input) = 2 /\ spawned = 1

\* C14: the WaitGroup counter is never negative, from the start of the process
\* to its exit, the states after close(input) and close(output) included; the
\* calls of wg.Done() never outnumber the calls of wg.Add(1).
C14_CounterNeverNegative ==
  /\ wg >= 0
  /\ wg <= Len(added)

\* in the first variant the send on output always precedes the close
V1_NoSendAfterClose == outputClosed => \A w \in Workers : wpc[w] # "send"

====
